---- MODULE Spec2Model ----
(***************************************************************************)
(* Model of the sidechain audio-analysis service                           *)
(* (backend/services/audio-analysis/app): the /analyze route, the          *)
(* AudioAnalyzer (key / tempo) and the AudioTagger (lazy model registry,   *)
(* embedding providers, classifiers).                                      *)
(*                                                                         *)
(* The specifications:                                                     *)
(*   Spec      the service as deployed: analyze_audio is an async handler  *)
(*             whose only suspension point is the fetch of the audio, so   *)
(*             the analysis part of a request runs without interleaving;   *)
(*             requests are served one after another.                      *)
(*   SpecRace  several threads calling AudioTagger._ensure_models_loaded   *)
(*             on one tagger, interleaved at every statement.              *)
(*   SpecFn    the functions of camelot.py, _detect_bpm and the            *)
(*             classifiers called on their own, on inputs from small sets. *)
(*   SpecSingleton  several threads calling get_tagger / get_analyzer in a *)
(*             fresh process, interleaved at every statement.              *)
(*                                                                         *)
(* The nominal run has every file present and valid, every flag at its     *)
(* default and no estimator or model raising; every departure from it      *)
(* (a "deviation") is a nondeterministic choice, and a behaviour holds at  *)
(* most MaxDeviations of them (a request with detect_key, detect_bpm or    *)
(* both switched off takes one).  The model directory is read lazily: a    *)
(* file is "unknown" until the code first looks at it, and keeps the state *)
(* it was then found in.                                                   *)
(***************************************************************************)
EXTENDS Integers, Sequences, FiniteSets, TLC

----------------------------------------------------------------------------
(* Bounds *)

NumRequests == 2
MaxDeviations == 2
\* The longest beat sequence and the longest activation vector tried.
MaxBeats == 102
MaxClasses == 3

Requests == 1..NumRequests

----------------------------------------------------------------------------
(* Program constants *)

SampleRate == 44100
MinDurationSec == 3

\* Confidences are modelled in tenths: 10 is 1.0.
ConfMax == 10

\* beats[:100]
BeatsLimit == 100

\* len(audio) values that an input may decode to: empty, one sample short of
\* 3.0 s, exactly 3.0 s, 5 s.
SampleCounts == {0, MinDurationSec * SampleRate - 1, MinDurationSec * SampleRate,
                 5 * SampleRate}
NominalSamples == 5 * SampleRate

\* KeyExtractor strength and RhythmExtractor2013 confidence, in tenths.
ConfValues == {-1, 0, ConfMax \div 2, ConfMax, ConfMax + 1}
NominalConf == ConfMax \div 2
\* RhythmExtractor2013 bpm.
BpmValues == {0, 120}
NominalBpm == CHOOSE b \in BpmValues : b > 0

\* The catalog of _ensure_models_loaded, in load order.
Catalog ==
    << [name |-> "msd-musicnn-1",                           attr |-> "msd_model"],
       [name |-> "mtg_jamendo_genre-discogs-effnet-1",      attr |-> "genre_model"],
       [name |-> "mtg_jamendo_moodtheme-discogs-effnet-1",  attr |-> "mood_model"],
       [name |-> "mtg_jamendo_instrument-discogs-effnet-1", attr |-> "instrument_model"],
       [name |-> "voice_instrumental-discogs-effnet-1",     attr |-> "voice_model"],
       [name |-> "danceability-discogs-effnet-1",           attr |-> "danceability_model"],
       [name |-> "emomusic-msd-musicnn-2",                  attr |-> "emomusic_model"] >>

ModelNames == {Catalog[i].name : i \in 1..Len(Catalog)}
ModelAttrs == {Catalog[i].attr : i \in 1..Len(Catalog)}
Embedders == {"discogs_embedder", "musicnn_embedder"}
Handles == Embedders \cup ModelAttrs

DiscogsPb == "discogs-effnet-bs64-1"
GenreName == "mtg_jamendo_genre-discogs-effnet-1"
MsdName == "msd-musicnn-1"
PbFiles == ModelNames \cup {DiscogsPb}

NameOf(attr) == Catalog[CHOOSE i \in 1..Len(Catalog) : Catalog[i].attr = attr].name

----------------------------------------------------------------------------
(* State *)

VARIABLES
    pbFile,         \* models_dir/<name>.pb : "unknown" | "ok" | "missing" | "invalid"
    jsonFile,       \* models_dir/<name>.json : "unknown" | "ok" | "missing" | "malformed"
    devs,           \* deviations taken so far
    tagger,         \* module global _tagger : "None" | "created"
    models_loaded,  \* AudioTagger._models_loaded
    handle,         \* AudioTagger._<attr> : "None" | "loaded"
    metadata,       \* AudioTagger._metadata : the set of cached model names
    loadAttempts,   \* per handle, the number of times its load was attempted
    pc,             \* per request, the statement it is at
    req,            \* per request, its parameters
    audio,          \* per request, len(audio) as decoded, or -1
    est,            \* per request, what the estimators did
    result,         \* per request, the dict AudioAnalyzer.analyze builds
    emb,            \* per request, the embeddings of tag()
    embCalls,       \* per request, the calls of each embedding provider
    tagres,         \* per request, the dict AudioTagger.tag builds
    tagrun,         \* per request, what each classifier of tag() did
    tagOutcome,     \* per request, how tag() and the route's try around it ended
    loads,          \* per request, load attempts made by its current call
    scheduler,      \* "loop" (one event loop) | "threads" (free interleaving)
    response,       \* per request, the outcome of analyze_audio
    fn,             \* the library function last called on its own, or "none"
    arg,            \* its arguments
    ret,            \* what it returned
    instances,      \* AudioTagger / AudioAnalyzer objects constructed so far
    singleton,      \* module globals _tagger / _analyzer as get_* see them
    got,            \* the instances get_tagger / get_analyzer have returned
    getcall,        \* per thread, its call of get_tagger / get_analyzer
    temp,           \* per request, its temporary audio file: the file on disk,
                    \* whether temp_path of analyze_audio holds its path, what
                    \* the fetch raised, and the unlink of the finally block
    cleanup_temp_files, \* settings.cleanup_temp_files, fixed for the process
    metaReads       \* per model name, the reads of its .json: "never" | "read" (by
                    \* the running request) | "before" (by a finished one) |
                    \* "again" (by a request after the one that read it first)

regVars == <<tagger, models_loaded, handle, metadata, loadAttempts>>
envVars == <<pbFile, jsonFile>>
anaVars == <<audio, est, result>>
tagVars == <<emb, embCalls, tagres, tagrun, tagOutcome>>
vars == <<pbFile, jsonFile, devs, tagger, models_loaded, handle, metadata,
          loadAttempts, pc, req, audio, est, result, emb, embCalls, tagres,
          tagrun, tagOutcome, loads, scheduler, response, fn, arg, ret,
          instances, singleton, got, getcall, metaReads, temp, cleanup_temp_files>>
libVars == <<fn, arg, ret>>
singVars == <<instances, singleton, got, getcall>>
fileVars == <<temp, cleanup_temp_files>>
auxVars == <<fn, arg, ret, instances, singleton, got, getcall, metaReads, temp,
             cleanup_temp_files>>

\* The defaults of get_tagger(models_dir=...) and get_analyzer(sample_rate=...).
\* An argument is a record: models_dir for the tagger, sample_rate for the
\* analyzer.
NoArg == [models_dir |-> "none", sample_rate |-> 0]
DefaultArg == [tagger |-> [NoArg EXCEPT !.models_dir = "/app/models"],
               analyzer |-> [NoArg EXCEPT !.sample_rate = SampleRate]]
Kinds == {"tagger", "analyzer"}
NoInstance == [id |-> 0, arg |-> NoArg]
NoGetCall == [kind |-> "none", arg |-> NoArg, saw |-> "none"]
\* The instance get_<kind> constructs now, from the argument it was given.
NewInstance(kind, a) == [id |-> instances[kind] + 1, arg |-> a]

Dev(b) == IF b THEN 1 ELSE 0
CanDeviate(n) == devs + n <= MaxDeviations

AbsentKey == [st |-> "absent", confidence |-> 0]
AbsentBpm == [st |-> "absent", value |-> 0, confidence |-> 0]
NoReq == [entry |-> "none", source |-> "none", detect_key |-> FALSE,
          detect_bpm |-> FALSE, detect_tags |-> FALSE, flags |-> {}]
NoEst == [key |-> "none", strength |-> 0, bpm |-> "none", value |-> 0, confidence |-> 0]
NoResult == [duration |-> -1, key |-> AbsentKey, bpm |-> AbsentBpm]
NoEmb == [effnet |-> "None", musicnn |-> "None"]
NoEmbCalls == [effnet |-> 0, musicnn |-> 0]
TagFields == {"top_tags", "genres", "moods", "instruments", "vocals",
              "danceability", "arousal_valence"}
DetectFlags == {"genres", "moods", "instruments", "vocals", "danceability",
                "arousal_valence"}
NoTagres == [f \in TagFields |-> "absent"]
NoTagrun == [f \in TagFields |-> "none"]
NoTemp == [file |-> "none", path |-> FALSE, raised |-> "none", unlink |-> "none"]
NoResponse == [status |-> 0, error |-> "none", key |-> AbsentKey, bpm |-> AbsentBpm,
               hasTags |-> FALSE, tags |-> NoTagres, duration |-> -1]

InitCommon ==
    /\ pbFile = [f \in PbFiles |-> "unknown"]
    /\ jsonFile = [m \in ModelNames |-> "unknown"]
    /\ devs = 0
    /\ models_loaded = FALSE
    /\ handle = [h \in Handles |-> "None"]
    /\ metadata = {}
    /\ loadAttempts = [h \in Handles |-> 0]
    /\ pc = [r \in Requests |-> "idle"]
    /\ req = [r \in Requests |-> NoReq]
    /\ audio = [r \in Requests |-> -1]
    /\ est = [r \in Requests |-> NoEst]
    /\ result = [r \in Requests |-> NoResult]
    /\ emb = [r \in Requests |-> NoEmb]
    /\ embCalls = [r \in Requests |-> NoEmbCalls]
    /\ tagres = [r \in Requests |-> NoTagres]
    /\ tagrun = [r \in Requests |-> NoTagrun]
    /\ tagOutcome = [r \in Requests |-> "none"]
    /\ loads = [r \in Requests |-> 0]
    /\ response = [r \in Requests |-> NoResponse]
    /\ fn = "none"
    /\ arg = <<>>
    /\ ret = <<>>
    /\ got = [k \in Kinds |-> {}]
    /\ getcall = [r \in Requests |-> NoGetCall]
    /\ metaReads = [m \in ModelNames |-> "never"]
    /\ temp = [r \in Requests |-> NoTemp]
    /\ cleanup_temp_files \in BOOLEAN

\* After startup: lifespan's get_analyzer(sample_rate=settings.sample_rate) has
\* made the analyzer; its get_tagger(models_dir=settings.models_dir) raises
\* (Settings has no models_dir) and is swallowed, so _tagger is still None.
Init ==
    /\ InitCommon
    /\ tagger = "None"
    /\ instances = [tagger |-> 0, analyzer |-> 1]
    /\ singleton = [tagger |-> NoInstance,
                    analyzer |-> [id |-> 1, arg |-> DefaultArg.analyzer]]
    /\ scheduler = "loop"

\* Under "loop" the requests are served one after another (the analysis part
\* of analyze_audio has no await, so it holds the event loop; the overlap of
\* one request's fetch with another request is not modelled), the request in
\* service taking the first slot.  Under "threads" every statement interleaves.
Turn(r) ==
    \/ scheduler = "threads"
    \/ r = 1

Set(f, r, v) == [f EXCEPT ![r] = v]

----------------------------------------------------------------------------
(* routes.py: analyze_audio, up to the analysis *)

\* The except clauses of analyze_audio, then its finally.
Fail(r, status, error) ==
    /\ response' = Set(response, r, [NoResponse EXCEPT !.status = status, !.error = error])
    /\ pc' = Set(pc, r, "cleanup")

Start(r) ==
    /\ pc[r] = "idle"
    /\ Turn(r)
    /\ \E source \in {"url", "file", "none"}, dk, db, dt \in BOOLEAN :
         LET cost == Dev(source # "url") + Dev(~dk \/ ~db) + Dev(~dt) IN
         /\ CanDeviate(cost)
         /\ devs' = devs + cost
         /\ req' = Set(req, r, [entry |-> "route", source |-> source, detect_key |-> dk,
                                detect_bpm |-> db, detect_tags |-> dt, flags |-> {}])
         /\ IF source = "none"
            THEN \* raised before the try: no except clause, no finally
                 /\ response' = Set(response, r,
                        [NoResponse EXCEPT !.status = 422, !.error = "missing_input"])
                 /\ pc' = Set(pc, r, "done")
            ELSE /\ response' = response
                 /\ pc' = Set(pc, r, "fetch")
    /\ UNCHANGED <<envVars, regVars, anaVars, tagVars, loads, scheduler, auxVars>>

\* The except clauses of analyze_audio, by the class of the exception raised
\* inside its try: ValueError, FileNotFoundError, then Exception, which every
\* other class is, HTTPException included.
ExceptClause(exc) ==
    CASE exc = "ValueError" -> [status |-> 422, error |-> "invalid_audio"]
      [] exc = "FileNotFoundError" -> [status |-> 422, error |-> "file_not_found"]
      [] OTHER -> [status |-> 503, error |-> "analysis_failed"]

\* How the fetch of a request may go:
\*   "ok"               the file is written and its path returned
\*   "download_failed"  httpx.HTTPError before the file is made (url only):
\*                      HTTPException(422, download_failed)
\*   "write_failed"     mkstemp made the file, then upload.read() or the write
\*                      raised: the exception leaves, temp_path stays None
\*   "file_error"       the path came back but the file does not exist:
\*                      HTTPException(422, file_error)
FetchOutcomes(source) ==
    {"ok", "write_failed", "file_error"}
        \cup (IF source = "url" THEN {"download_failed"} ELSE {})

\* _download_audio / _save_upload and the check of temp_path, all inside the
\* try of analyze_audio: what they raise goes through its except clauses.
Fetch(r) ==
    /\ pc[r] = "fetch"
    /\ Turn(r)
    /\ \E o \in FetchOutcomes(req[r].source) :
         /\ CanDeviate(Dev(o # "ok"))
         /\ devs' = devs + Dev(o # "ok")
         /\ temp' = Set(temp, r,
               [NoTemp EXCEPT !.file = IF o \in {"ok", "write_failed"} THEN "exists"
                                      ELSE "none",
                              !.path = o \in {"ok", "file_error"},
                              !.raised = CASE o = "ok" -> "none"
                                           [] o = "write_failed" -> "OSError"
                                           [] OTHER -> o])
         /\ IF o = "ok"
            THEN /\ pc' = Set(pc, r, "analyze_load")
                 /\ response' = response
            ELSE LET e == ExceptClause(IF o = "write_failed" THEN "OSError"
                                                            ELSE "HTTPException") IN
                 Fail(r, e.status, e.error)
    /\ UNCHANGED <<envVars, regVars, req, anaVars, tagVars, loads, scheduler, libVars,
                   singVars, metaReads, cleanup_temp_files>>

----------------------------------------------------------------------------
(* analyzer.py: AudioAnalyzer.analyze *)

\* Mutant: the check written with <=, refusing a clip of exactly 3.0 s.
TooShort_OffByOne(n) == n <= MinDurationSec * SampleRate

\* Mutant: analyze() without its duration check.
TooShort_NoCheck(n) == FALSE

\* The minimum duration check: len(audio) / sample_rate < 3.0
TooShort(n) == n < MinDurationSec * SampleRate

\* MonoLoader, the duration and its check.
AnalyzeLoad(r) ==
    /\ pc[r] = "analyze_load"
    /\ Turn(r)
    /\ \/ \* the loader raises (not an audio file): RuntimeError, a 503
          /\ CanDeviate(1)
          /\ devs' = devs + 1
          /\ Fail(r, 503, "analysis_failed")
          /\ UNCHANGED <<audio, result>>
       \/ \E n \in SampleCounts :
            /\ CanDeviate(Dev(n # NominalSamples))
            /\ devs' = devs + Dev(n # NominalSamples)
            /\ audio' = Set(audio, r, n)
            /\ IF TooShort(n)
               THEN \* ValueError, surfaced as 422 invalid_audio
                    /\ Fail(r, 422, "invalid_audio")
                    /\ result' = result
               ELSE /\ result' = Set(result, r, [NoResult EXCEPT !.duration = n])
                    /\ pc' = Set(pc, r, "detect_key")
                    /\ response' = response
    /\ UNCHANGED <<envVars, regVars, req, est, tagVars, loads, scheduler, auxVars>>

\* Mutant: key detection without its try / except, the exception leaving
\* analyze() and the request failing with a 503.
DetectKey_NoCatch(r) ==
    /\ pc[r] = "detect_key"
    /\ Turn(r)
    /\ IF ~req[r].detect_key
       THEN /\ pc' = Set(pc, r, "detect_bpm")
            /\ UNCHANGED <<devs, est, result, response>>
       ELSE \/ /\ CanDeviate(1)
               /\ devs' = devs + 1
               /\ est' = Set(est, r, [est[r] EXCEPT !.key = "raised"])
               /\ result' = result
               /\ Fail(r, 503, "analysis_failed")
            \/ \E s \in ConfValues :
               /\ CanDeviate(Dev(s # NominalConf))
               /\ devs' = devs + Dev(s # NominalConf)
               /\ est' = Set(est, r, [est[r] EXCEPT !.key = "returned", !.strength = s])
               /\ result' = Set(result, r,
                     [result[r] EXCEPT !.key = [st |-> "ok", confidence |-> s]])
               /\ pc' = Set(pc, r, "detect_bpm")
               /\ response' = response
    /\ UNCHANGED <<envVars, regVars, req, audio, tagVars, loads, scheduler, auxVars>>

\* if detect_key: try: result["key"] = self._detect_key(audio)
\*                except Exception: result["key"] = None
DetectKey(r) ==
    /\ pc[r] = "detect_key"
    /\ Turn(r)
    /\ IF ~req[r].detect_key
       THEN UNCHANGED <<devs, est, result>>
       ELSE \/ /\ CanDeviate(1)
               /\ devs' = devs + 1
               /\ est' = Set(est, r, [est[r] EXCEPT !.key = "raised"])
               /\ result' = Set(result, r,
                     [result[r] EXCEPT !.key = [st |-> "None", confidence |-> 0]])
            \/ \E s \in ConfValues :
               /\ CanDeviate(Dev(s # NominalConf))
               /\ devs' = devs + Dev(s # NominalConf)
               /\ est' = Set(est, r, [est[r] EXCEPT !.key = "returned", !.strength = s])
               /\ result' = Set(result, r,
                     [result[r] EXCEPT !.key = [st |-> "ok", confidence |-> s]])
    /\ pc' = Set(pc, r, "detect_bpm")
    /\ UNCHANGED <<envVars, regVars, req, audio, tagVars, loads, scheduler, auxVars, response>>

\* if detect_bpm: try: result["bpm"] = self._detect_bpm(audio)
\*                except Exception: result["bpm"] = None
DetectBpm(r) ==
    /\ pc[r] = "detect_bpm"
    /\ Turn(r)
    /\ IF ~req[r].detect_bpm
       THEN UNCHANGED <<devs, est, result>>
       ELSE \/ /\ CanDeviate(1)
               /\ devs' = devs + 1
               /\ est' = Set(est, r, [est[r] EXCEPT !.bpm = "raised"])
               /\ result' = Set(result, r,
                     [result[r] EXCEPT !.bpm = [st |-> "None", value |-> 0, confidence |-> 0]])
            \/ \E b \in BpmValues, c \in ConfValues :
               LET cost == Dev(b # NominalBpm) + Dev(c # NominalConf) IN
               /\ CanDeviate(cost)
               /\ devs' = devs + cost
               /\ est' = Set(est, r, [est[r] EXCEPT !.bpm = "returned", !.value = b,
                                                    !.confidence = c])
               /\ result' = Set(result, r,
                     [result[r] EXCEPT !.bpm = [st |-> "ok", value |-> b, confidence |-> c]])
    /\ pc' = Set(pc, r, IF req[r].detect_tags THEN "get_tagger" ELSE "respond")
    /\ UNCHANGED <<envVars, regVars, req, audio, tagVars, loads, scheduler, auxVars, response>>

----------------------------------------------------------------------------
(* tagger.py: get_tagger, AudioTagger._ensure_models_loaded *)

\* What a look at models_dir/<f>.pb may find, `used` deviations being already
\* taken in this step; a file once seen keeps its state.
PbSeen(f, used) ==
    IF pbFile[f] # "unknown" THEN {pbFile[f]}
    ELSE {"ok"} \cup (IF CanDeviate(used + 1) THEN {"missing", "invalid"} ELSE {})
PbCost(f, v) == Dev(pbFile[f] = "unknown" /\ v # "ok")

JsonSeen(m, used) ==
    IF jsonFile[m] # "unknown" THEN {jsonFile[m]}
    ELSE {"ok"} \cup (IF CanDeviate(used + 1) THEN {"missing", "malformed"} ELSE {})
JsonCost(m, v) == Dev(jsonFile[m] = "unknown" /\ v # "ok")

\* _load_metadata(model_name), the file being found in state j when it is read:
\*   "cached"  the entry of self._metadata is returned
\*   "loaded"  json.load succeeds, the entry is stored and returned
\*   "empty"   the file does not exist: {} is returned, nothing is stored
\*   "raised"  open / json.load raises, nothing is stored
LoadMetadata(m, j) ==
    IF m \in metadata THEN "cached"
    ELSE CASE j = "missing" -> "empty"
           [] j = "malformed" -> "raised"
           [] OTHER -> "loaded"
\* Whether _load_metadata reads the file at all.
ReadsJson(m) == m \notin metadata
MetadataAfter(m, j) ==
    IF LoadMetadata(m, j) = "loaded" THEN metadata \cup {m} ELSE metadata
\* The record of the reads of <m>.json, after a _load_metadata call that reads
\* the file or not.
ReadsAfter(m, reads) ==
    IF reads THEN [metaReads EXCEPT ![m] = IF @ \in {"before", "again"} THEN "again"
                                          ELSE "read"]
             ELSE metaReads

\* get_tagger() and the entry of tag(): the route passes only top_n, so the
\* detect_* flags are at their default, True; another caller may clear some.
GetTagger(r) ==
    /\ pc[r] = "get_tagger"
    /\ Turn(r)
    /\ tagger' = "created"
    /\ instances' = IF tagger = "None" THEN [instances EXCEPT !.tagger = @ + 1]
                                        ELSE instances
    /\ singleton' = IF tagger = "None"
                     THEN [singleton EXCEPT !.tagger = NewInstance("tagger", DefaultArg.tagger)]
                     ELSE singleton
    /\ got' = [got EXCEPT !.tagger = @ \cup {singleton'.tagger}]
    /\ \E off \in SUBSET DetectFlags :
         /\ CanDeviate(Cardinality(off))
         /\ devs' = devs + Cardinality(off)
         /\ req' = Set(req, r, [req[r] EXCEPT !.flags = DetectFlags \ off])
    /\ loads' = Set(loads, r, 0)
    /\ pc' = Set(pc, r, "ensure")
    /\ UNCHANGED <<envVars, models_loaded, handle, metadata, loadAttempts, anaVars,
                   tagVars, scheduler, libVars, getcall, metaReads, fileVars, response>>

\* Where _ensure_models_loaded returns to.
AfterEnsure(r) == IF req[r].entry = "ensure" THEN "done" ELSE "tag_audio"

\* Mutant: the early return dropped, every call loading the catalog again.
EnsureEntry_NoEarlyReturn(r) ==
    /\ pc[r] = "ensure"
    /\ Turn(r)
    /\ pc' = Set(pc, r, "load_discogs")
    /\ UNCHANGED <<envVars, devs, regVars, req, anaVars, tagVars, loads, scheduler, auxVars,
                   response>>

\* Mutant: self._models_loaded = True moved from the end of the pass to its
\* start, so that a second caller returns while the first is still loading.
EnsureEntry_FlagFirst(r) ==
    /\ pc[r] = "ensure"
    /\ Turn(r)
    /\ pc' = Set(pc, r, IF models_loaded THEN AfterEnsure(r) ELSE "load_discogs")
    /\ models_loaded' = TRUE
    /\ UNCHANGED <<envVars, devs, tagger, handle, metadata, loadAttempts, req, anaVars,
                   tagVars, loads, scheduler, auxVars, response>>

\* if self._models_loaded: return
EnsureEntry(r) ==
    /\ pc[r] = "ensure"
    /\ Turn(r)
    /\ pc' = Set(pc, r, IF models_loaded THEN AfterEnsure(r) ELSE "load_discogs")
    /\ UNCHANGED <<envVars, devs, regVars, req, anaVars, tagVars, loads, scheduler, auxVars,
                   response>>

Attempt(h) == [loadAttempts EXCEPT ![h] = @ + 1]

\* try: the EffNet embedder from discogs-effnet-bs64-1.pb if it exists, else
\* from the genre model's .pb; except Exception: warning
LoadDiscogs(r) ==
    /\ pc[r] = "load_discogs"
    /\ Turn(r)
    /\ \E d \in PbSeen(DiscogsPb, 0) :
         LET file == IF d = "missing" THEN GenreName ELSE DiscogsPb IN
         \E g \in (IF d = "missing" THEN PbSeen(GenreName, PbCost(DiscogsPb, d)) ELSE {d}) :
           /\ devs' = devs + PbCost(DiscogsPb, d)
                           + (IF d = "missing" THEN PbCost(GenreName, g) ELSE 0)
           /\ pbFile' = [pbFile EXCEPT ![DiscogsPb] = d, ![file] = g]
           /\ handle' = IF g = "ok" THEN [handle EXCEPT !["discogs_embedder"] = "loaded"]
                        ELSE handle
    /\ loadAttempts' = Attempt("discogs_embedder")
    /\ loads' = Set(loads, r, loads[r] + 1)
    /\ pc' = Set(pc, r, "load_musicnn")
    /\ UNCHANGED <<jsonFile, tagger, models_loaded, metadata, req, anaVars, tagVars,
                   scheduler, auxVars, response>>

\* try: the MusiCNN embedder from msd-musicnn-1.pb; except Exception: warning
LoadMusicnn(r) ==
    /\ pc[r] = "load_musicnn"
    /\ Turn(r)
    /\ \E v \in PbSeen(MsdName, 0) :
         /\ devs' = devs + PbCost(MsdName, v)
         /\ pbFile' = [pbFile EXCEPT ![MsdName] = v]
         /\ handle' = IF v = "ok" THEN [handle EXCEPT !["musicnn_embedder"] = "loaded"]
                      ELSE handle
    /\ loadAttempts' = Attempt("musicnn_embedder")
    /\ loads' = Set(loads, r, loads[r] + 1)
    /\ pc' = Set(pc, r, "load_model_1")
    /\ UNCHANGED <<jsonFile, tagger, models_loaded, metadata, req, anaVars, tagVars,
                   scheduler, auxVars, response>>

LoadPcs == <<"load_model_1", "load_model_2", "load_model_3", "load_model_4",
             "load_model_5", "load_model_6", "load_model_7">>

\* _load_model(model_name, attr_name, model_class), the .pb being found in state
\* v and the .json (if it is read) in state j: the handle and the metadata cache
\* after it.  A missing .pb returns early; the constructor and _load_metadata
\* run in that order inside one try.
LoadModelHandle(attr, v) ==
    IF v = "ok" THEN [handle EXCEPT ![attr] = "loaded"] ELSE handle
LoadModelMetadata(name, v, j) ==
    IF v = "ok" THEN MetadataAfter(name, j) ELSE metadata

\* Mutant: the _load_metadata call placed after the try, so that a malformed
\* sidecar raises out of _load_model.
LoadModelEscapes_MetadataOutsideTry(v, j) == v = "ok" /\ j = "malformed"

\* Whether an exception leaves _load_model: the try / except Exception encloses
\* the constructor and the _load_metadata call, so none does.
LoadModelEscapes(v, j) == FALSE

\* An exception leaves _ensure_models_loaded, and so tag(): the route's `except
\* Exception` around the tagging logs it and tags_result stays None.
EnsureRaise(r) ==
    /\ tagOutcome' = Set(tagOutcome, r, "ensure_raised")
    /\ pc' = Set(pc, r, IF req[r].entry = "ensure" THEN "done" ELSE "respond")

LoadModel(r, i) ==
    /\ pc[r] = LoadPcs[i]
    /\ Turn(r)
    /\ LET name == Catalog[i].name
           attr == Catalog[i].attr IN
       /\ \E v \in PbSeen(name, 0) :
            LET reads == v = "ok" /\ ReadsJson(name) IN
            \E j \in (IF reads THEN JsonSeen(name, PbCost(name, v)) ELSE {jsonFile[name]}) :
              /\ devs' = devs + PbCost(name, v) + (IF reads THEN JsonCost(name, j) ELSE 0)
              /\ pbFile' = [pbFile EXCEPT ![name] = v]
              /\ jsonFile' = [jsonFile EXCEPT ![name] = j]
              /\ handle' = LoadModelHandle(attr, v)
              /\ metadata' = LoadModelMetadata(name, v, j)
              /\ metaReads' = ReadsAfter(name, reads)
              /\ IF LoadModelEscapes(v, j)
                 THEN EnsureRaise(r)
                 ELSE /\ pc' = Set(pc, r, IF i < Len(Catalog) THEN LoadPcs[i + 1]
                                          ELSE "set_loaded")
                      /\ tagOutcome' = tagOutcome
       /\ loadAttempts' = Attempt(attr)
    /\ loads' = Set(loads, r, loads[r] + 1)
    /\ UNCHANGED <<tagger, models_loaded, req, anaVars, emb, embCalls, tagres, tagrun,
                   scheduler, libVars, singVars, fileVars, response>>

\* self._models_loaded = True
SetLoaded(r) ==
    /\ pc[r] = "set_loaded"
    /\ Turn(r)
    /\ models_loaded' = TRUE
    /\ pc' = Set(pc, r, AfterEnsure(r))
    /\ UNCHANGED <<envVars, devs, tagger, handle, metadata, loadAttempts, req, anaVars,
                   tagVars, loads, scheduler, auxVars, response>>

----------------------------------------------------------------------------
(* tagger.py: AudioTagger.tag *)

RankFields == {"genres", "moods", "instruments"}
BinaryFields == {"vocals", "danceability"}
EffnetFields == RankFields \cup BinaryFields
MusicnnFields == {"top_tags", "arousal_valence"}

\* The model attribute and the metadata name each classifier of tag() uses.
AttrOf(f) ==
    CASE f = "genres" -> "genre_model"
      [] f = "moods" -> "mood_model"
      [] f = "instruments" -> "instrument_model"
      [] f = "vocals" -> "voice_model"
      [] f = "danceability" -> "danceability_model"
      [] f = "arousal_valence" -> "emomusic_model"
      [] OTHER -> "msd_model"
MetaNameOf(f) == IF f = "top_tags" THEN MsdName ELSE NameOf(AttrOf(f))

\* The statements of tag() after the embeddings, in order.
TagOrder == <<"top_tags", "genres", "moods", "instruments", "vocals", "danceability",
              "arousal_valence">>
NextTagPc(f) ==
    LET i == CHOOSE k \in 1..Len(TagOrder) : TagOrder[k] = f IN
    IF i < Len(TagOrder) THEN TagOrder[i + 1] ELSE "tag_return"

\* An exception leaves tag(): the route's `except Exception` around the tagging
\* logs it and tags_result stays None.
TagRaise(r) ==
    /\ tagOutcome' = Set(tagOutcome, r, "raised")
    /\ pc' = Set(pc, r, "respond")

\* path.exists() and MonoLoader at 16 kHz.
TagLoadAudio(r) ==
    /\ pc[r] = "tag_audio"
    /\ Turn(r)
    /\ \E ok \in BOOLEAN :
         /\ CanDeviate(Dev(~ok))
         /\ devs' = devs + Dev(~ok)
         /\ IF ok
            THEN /\ pc' = Set(pc, r, "embed_effnet")
                 /\ tagOutcome' = tagOutcome
            ELSE TagRaise(r)
    /\ UNCHANGED <<envVars, regVars, req, anaVars, emb, embCalls, tagres, tagrun, loads,
                   scheduler, auxVars, response>>

\* Mutant: a failed extraction tried a second time.
Embed_Retry(r, provider, h, nextPc) ==
    /\ Turn(r)
    /\ IF handle[h] = "None"
       THEN UNCHANGED <<devs, emb, embCalls>>
       ELSE \E ok \in BOOLEAN :
              /\ CanDeviate(Dev(~ok))
              /\ devs' = devs + Dev(~ok)
              /\ embCalls' = Set(embCalls, r,
                    [embCalls[r] EXCEPT ![provider] = @ + (IF ok THEN 1 ELSE 2)])
              /\ emb' = Set(emb, r,
                    [emb[r] EXCEPT ![provider] = IF ok THEN "value" ELSE "None"])
    /\ pc' = Set(pc, r, nextPc)
    /\ UNCHANGED <<envVars, regVars, req, anaVars, tagres, tagrun, tagOutcome, loads,
                   scheduler, auxVars, response>>

\* if self._<embedder>: try: embeddings = self._<embedder>(audio)
\*                      except Exception: warning
Embed(r, provider, h, nextPc) ==
    /\ Turn(r)
    /\ IF handle[h] = "None"
       THEN UNCHANGED <<devs, emb, embCalls>>
       ELSE /\ embCalls' = Set(embCalls, r, [embCalls[r] EXCEPT ![provider] = @ + 1])
            /\ \E ok \in BOOLEAN :
                 /\ CanDeviate(Dev(~ok))
                 /\ devs' = devs + Dev(~ok)
                 /\ emb' = Set(emb, r,
                       [emb[r] EXCEPT ![provider] = IF ok THEN "value" ELSE "None"])
    /\ pc' = Set(pc, r, nextPc)
    /\ UNCHANGED <<envVars, regVars, req, anaVars, tagres, tagrun, tagOutcome, loads,
                   scheduler, auxVars, response>>

EmbedEffnet(r) ==
    /\ pc[r] = "embed_effnet"
    /\ Embed(r, "effnet", "discogs_embedder", "embed_musicnn")

EmbedMusicnn(r) ==
    /\ pc[r] = "embed_musicnn"
    /\ Embed(r, "musicnn", "musicnn_embedder", "top_tags")

\* The value each classifier returns ("RAISE": the exception leaves it), from
\*   h     its model handle,
\*   meta  what its _load_metadata call did (LoadMetadata),
\*   run   what the model / the ranking gave: "value", "empty" (no activation
\*         above 0.1), "badvalue" (a confidence above 1.0), "raised".

\* _get_top_tags: no model handle, no try
GetTopTags(meta, run) ==
    CASE meta = "raised" -> "RAISE"
      [] meta = "empty" -> "empty"
      [] OTHER -> run

\* _classify: the metadata is read before the try
ClassifyRank(h, meta, run) ==
    CASE h = "None" -> "empty"
      [] meta = "raised" -> "RAISE"
      [] run = "raised" -> "empty"
      [] meta = "empty" -> "empty"
      [] OTHER -> run

\* _classify_binary: the metadata is read before the try; None leaves the
\* fields out of the result
ClassifyBinary(h, meta, run) ==
    CASE h = "None" -> "absent"
      [] meta = "raised" -> "RAISE"
      [] run = "raised" -> "absent"
      [] OTHER -> run

\* _get_arousal_valence: no metadata; None leaves the fields out
GetArousalValence(h, run) ==
    CASE h = "None" -> "absent"
      [] run = "raised" -> "absent"
      [] OTHER -> run

RunsOf(f) ==
    CASE f = "top_tags" -> {"value", "empty", "badvalue"}
      [] f \in RankFields -> {"value", "empty", "raised"}
      [] f \in BinaryFields -> {"value", "badvalue", "raised"}
      [] OTHER -> {"value", "raised"}

\* Whether the classifier of f is entered at all.
Requested(r, f) == f = "top_tags" \/ f \in req[r].flags
EmbeddingOf(r, f) == IF f \in MusicnnFields THEN emb[r].musicnn ELSE emb[r].effnet
\* Mutant: the `<embeddings> is not None` test dropped.
Entered_FlagOnly(r, f) == Requested(r, f)
Entered(r, f) == Requested(r, f) /\ EmbeddingOf(r, f) # "None"
UsesHandle(f) == f # "top_tags"
UsesMetadata(f) == f # "arousal_valence"
\* The object whose output the classifier of f averages into its values: the
\* model of f called on the embeddings, or for top_tags the embeddings as such.
ValuesOf(f) == IF UsesHandle(f) THEN AttrOf(f) ELSE "musicnn_embedder"

Returned(f, h, meta, run) ==
    CASE f = "top_tags" -> GetTopTags(meta, run)
      [] f \in RankFields -> ClassifyRank(h, meta, run)
      [] f \in BinaryFields -> ClassifyBinary(h, meta, run)
      [] OTHER -> GetArousalValence(h, run)

\* What the classifier did, for the record in tagrun.
RunKind(f, h, meta, run) ==
    CASE UsesHandle(f) /\ h = "None" -> "nomodel"
      [] UsesMetadata(f) /\ meta = "raised" -> "meta_raised"
      [] run = "raised" -> "raised"
      [] OTHER -> "returned"

\* One classifier statement of tag():
\*   if <flag> and <embeddings> is not None: result[<field>] = <classifier>(...)
Classifier(r, f) ==
    /\ pc[r] = f
    /\ Turn(r)
    /\ IF ~Entered(r, f)
       THEN /\ tagrun' = Set(tagrun, r, [tagrun[r] EXCEPT ![f] = "skipped"])
            /\ pc' = Set(pc, r, NextTagPc(f))
            /\ UNCHANGED <<jsonFile, devs, metadata, metaReads, tagres, tagOutcome>>
       ELSE LET name == MetaNameOf(f)
                h == IF UsesHandle(f) THEN handle[AttrOf(f)] ELSE "loaded"
                reads == UsesMetadata(f) /\ h # "None" /\ ReadsJson(name) IN
            \E j \in (IF reads THEN JsonSeen(name, 0) ELSE {jsonFile[name]}) :
              LET meta == IF UsesMetadata(f) THEN LoadMetadata(name, j) ELSE "cached"
                  called == h # "None" /\ meta # "raised" IN
              \E run \in (IF called THEN RunsOf(f) ELSE {"value"}) :
                LET cost == (IF reads THEN JsonCost(name, j) ELSE 0) + Dev(run # "value")
                    out == Returned(f, h, meta, run) IN
                /\ CanDeviate(cost)
                /\ devs' = devs + cost
                /\ jsonFile' = [jsonFile EXCEPT ![name] = j]
                /\ metadata' = IF reads THEN MetadataAfter(name, j) ELSE metadata
                /\ metaReads' = ReadsAfter(name, reads)
                /\ tagrun' = Set(tagrun, r, [tagrun[r] EXCEPT ![f] = RunKind(f, h, meta, run)])
                /\ IF out = "RAISE"
                   THEN /\ TagRaise(r)
                        /\ tagres' = tagres
                   ELSE /\ tagres' = Set(tagres, r, [tagres[r] EXCEPT ![f] = out])
                        /\ pc' = Set(pc, r, NextTagPc(f))
                        /\ tagOutcome' = tagOutcome
    /\ UNCHANGED <<pbFile, tagger, models_loaded, handle, loadAttempts, req, anaVars,
                   emb, embCalls, loads, scheduler, libVars, singVars, fileVars,
                   response>>

\* return result
TagReturn(r) ==
    /\ pc[r] = "tag_return"
    /\ Turn(r)
    /\ tagOutcome' = Set(tagOutcome, r, "returned")
    /\ pc' = Set(pc, r, "tag_convert")
    /\ UNCHANGED <<envVars, devs, regVars, req, anaVars, emb, embCalls, tagres, tagrun,
                   loads, scheduler, auxVars, response>>

----------------------------------------------------------------------------
(* routes.py: analyze_audio, from the tagging to the response *)

\* schemas.py: the Field constraints of KeyResult, BPMResult (confidence in
\* tenths).
KeyValid(k) == 0 <= k.confidence /\ k.confidence <= ConfMax
BpmValid(b) == b.value > 0 /\ 0 <= b.confidence /\ b.confidence <= ConfMax

\* Mutant: TagItem and TagResult without their Field constraints.
TagsValid_Unchecked(t) == TRUE

\* TagResult(...) from tag_data, inside the try around the tagging: TagItem and
\* the *_confidence fields accept [0,1] only; an empty top_tags becomes None.
TagsValid(t) == \A f \in TagFields : t[f] # "badvalue"
TagResultOf(t) == [t EXCEPT !["top_tags"] = IF @ = "empty" THEN "absent" ELSE @]

TagConvert(r) ==
    /\ pc[r] = "tag_convert"
    /\ Turn(r)
    /\ IF TagsValid(tagres[r])
       THEN /\ response' = Set(response, r,
                  [response[r] EXCEPT !.hasTags = TRUE, !.tags = TagResultOf(tagres[r])])
            /\ tagOutcome' = tagOutcome
       ELSE \* ValidationError, caught by the `except Exception` of the tagging
            /\ response' = response
            /\ tagOutcome' = Set(tagOutcome, r, "convert_failed")
    /\ pc' = Set(pc, r, "respond")
    /\ UNCHANGED <<envVars, devs, regVars, req, anaVars, emb, embCalls, tagres, tagrun,
                   loads, scheduler, auxVars>>

\* AnalysisResponse(key=KeyResult(**result["key"]) if result.get("key") else None,
\*                  bpm=BPMResult(**result["bpm"]) if result.get("bpm") else None, ...)
\* A pydantic ValidationError is a ValueError: `except ValueError` turns it into
\* 422 invalid_audio.
ResponseOf(r) ==
    [response[r] EXCEPT
        !.status = 200,
        !.key = IF result[r].key.st = "ok" THEN result[r].key ELSE AbsentKey,
        !.bpm = IF result[r].bpm.st = "ok" THEN result[r].bpm ELSE AbsentBpm,
        !.duration = result[r].duration]

Validates(r) ==
    /\ result[r].key.st = "ok" => KeyValid(result[r].key)
    /\ result[r].bpm.st = "ok" => BpmValid(result[r].bpm)

Respond(r) ==
    /\ pc[r] = "respond"
    /\ Turn(r)
    /\ IF Validates(r)
       THEN /\ response' = Set(response, r, ResponseOf(r))
            /\ pc' = Set(pc, r, "cleanup")
       ELSE Fail(r, 422, "invalid_audio")
    /\ UNCHANGED <<envVars, devs, regVars, req, anaVars, tagVars, loads, scheduler, auxVars>>

\* finally: the temp file is unlinked; the response or the HTTPException leaves.
\*   if settings.cleanup_temp_files and temp_path and temp_path.exists():
\*       try: temp_path.unlink()  except Exception: warning
Cleanup(r) ==
    /\ pc[r] = "cleanup"
    /\ Turn(r)
    /\ IF cleanup_temp_files /\ temp[r].path /\ temp[r].file = "exists"
       THEN \E ok \in BOOLEAN :
              /\ CanDeviate(Dev(~ok))
              /\ devs' = devs + Dev(~ok)
              /\ temp' = Set(temp, r,
                    [temp[r] EXCEPT !.file = IF ok THEN "removed" ELSE "exists",
                                    !.unlink = IF ok THEN "ok" ELSE "failed"])
       ELSE UNCHANGED <<devs, temp>>
    /\ pc' = Set(pc, r, "done")
    /\ UNCHANGED <<envVars, regVars, req, anaVars, tagVars, loads, scheduler, libVars,
                   singVars, metaReads, cleanup_temp_files, response>>

\* Mutant: tag() keeping its embeddings in an attribute of the tagger, where
\* they outlive the call.
Finish_KeepsEmbeddings(r) ==
    /\ pc[r] = "done"
    /\ Turn(r)
    /\ pc' = Set(pc, r, "idle")
    /\ req' = Set(req, r, NoReq)
    /\ audio' = Set(audio, r, -1)
    /\ est' = Set(est, r, NoEst)
    /\ result' = Set(result, r, NoResult)
    /\ embCalls' = Set(embCalls, r, NoEmbCalls)
    /\ tagres' = Set(tagres, r, NoTagres)
    /\ tagrun' = Set(tagrun, r, NoTagrun)
    /\ tagOutcome' = Set(tagOutcome, r, "none")
    /\ loads' = Set(loads, r, 0)
    /\ response' = Set(response, r, NoResponse)
    /\ metaReads' = [m \in ModelNames |-> IF metaReads[m] = "read" THEN "before"
                                          ELSE metaReads[m]]
    /\ temp' = Set(temp, r, NoTemp)
    /\ UNCHANGED <<envVars, devs, regVars, emb, scheduler, libVars, singVars,
                   cleanup_temp_files>>

\* The call is over: its locals are gone.
Finish(r) ==
    /\ pc[r] = "done"
    /\ Turn(r)
    /\ pc' = Set(pc, r, "idle")
    /\ req' = Set(req, r, NoReq)
    /\ audio' = Set(audio, r, -1)
    /\ est' = Set(est, r, NoEst)
    /\ result' = Set(result, r, NoResult)
    /\ emb' = Set(emb, r, NoEmb)
    /\ embCalls' = Set(embCalls, r, NoEmbCalls)
    /\ tagres' = Set(tagres, r, NoTagres)
    /\ tagrun' = Set(tagrun, r, NoTagrun)
    /\ tagOutcome' = Set(tagOutcome, r, "none")
    /\ loads' = Set(loads, r, 0)
    /\ response' = Set(response, r, NoResponse)
    /\ metaReads' = [m \in ModelNames |-> IF metaReads[m] = "read" THEN "before"
                                          ELSE metaReads[m]]
    /\ temp' = Set(temp, r, NoTemp)
    /\ UNCHANGED <<envVars, devs, regVars, scheduler, libVars, singVars,
                   cleanup_temp_files>>

----------------------------------------------------------------------------
(* The service *)

Next ==
    \E r \in Requests :
        \/ Start(r)
        \/ Fetch(r)
        \/ AnalyzeLoad(r)
        \/ DetectKey(r)
        \/ DetectBpm(r)
        \/ GetTagger(r)
        \/ EnsureEntry(r)
        \/ LoadDiscogs(r)
        \/ LoadMusicnn(r)
        \/ \E i \in 1..Len(Catalog) : LoadModel(r, i)
        \/ SetLoaded(r)
        \/ TagLoadAudio(r)
        \/ EmbedEffnet(r)
        \/ EmbedMusicnn(r)
        \/ \E f \in TagFields : Classifier(r, f)
        \/ TagReturn(r)
        \/ TagConvert(r)
        \/ Respond(r)
        \/ Cleanup(r)
        \/ Finish(r)

Spec == Init /\ [][Next]_vars

----------------------------------------------------------------------------
(* Threads calling _ensure_models_loaded on one tagger *)

InitRace ==
    /\ InitCommon
    /\ tagger = "created"
    /\ instances = [tagger |-> 1, analyzer |-> 1]
    /\ singleton = [tagger |-> [id |-> 1, arg |-> DefaultArg.tagger],
                    analyzer |-> [id |-> 1, arg |-> DefaultArg.analyzer]]
    /\ scheduler = "threads"

\* A thread calls self._ensure_models_loaded().
EnsureCall(r) ==
    /\ pc[r] = "idle"
    /\ req' = Set(req, r, [NoReq EXCEPT !.entry = "ensure"])
    /\ loads' = Set(loads, r, 0)
    /\ pc' = Set(pc, r, "ensure")
    /\ UNCHANGED <<envVars, devs, regVars, anaVars, tagVars, scheduler, auxVars, response>>

NextRace ==
    \E r \in Requests :
        \/ EnsureCall(r)
        \/ EnsureEntry(r)
        \/ LoadDiscogs(r)
        \/ LoadMusicnn(r)
        \/ \E i \in 1..Len(Catalog) : LoadModel(r, i)
        \/ SetLoaded(r)
        \/ Finish(r)

SpecRace == InitRace /\ [][NextRace]_vars

----------------------------------------------------------------------------
(* camelot.py.  A Python str is modelled as the sequence of its characters, *)
(* so that str.lower and str.strip are computed and not assumed.           *)

UpperCase == <<"A", "B", "C", "D", "E", "F", "G", "H", "I", "J", "K", "L", "M",
               "N", "O", "P", "Q", "R", "S", "T", "U", "V", "W", "X", "Y", "Z">>
LowerCase == <<"a", "b", "c", "d", "e", "f", "g", "h", "i", "j", "k", "l", "m",
               "n", "o", "p", "q", "r", "s", "t", "u", "v", "w", "x", "y", "z">>
Whitespace == {" ", "\t", "\n"}

LowerChar(c) ==
    IF \E i \in 1..Len(UpperCase) : UpperCase[i] = c
    THEN LowerCase[CHOOSE i \in 1..Len(UpperCase) : UpperCase[i] = c]
    ELSE c
\* str.lower()
lower(str) == [i \in 1..Len(str) |-> LowerChar(str[i])]

SetMin(S) == CHOOSE x \in S : \A y \in S : x <= y
SetMax(S) == CHOOSE x \in S : \A y \in S : y <= x
\* str.strip()
strip(str) ==
    LET solid == {i \in 1..Len(str) : str[i] \notin Whitespace} IN
    IF solid = {} THEN <<>> ELSE SubSeq(str, SetMin(solid), SetMax(solid))

minor == <<"m", "i", "n", "o", "r">>
major == <<"m", "a", "j", "o", "r">>

\* The literal of CAMELOT_MAP, row by row: (key, scale): code.
CamelotRows ==
    << << <<"A">>, minor, <<"8", "A">> >>,
       << <<"E">>, minor, <<"9", "A">> >>,
       << <<"B">>, minor, <<"1", "0", "A">> >>,
       << <<"F", "#">>, minor, <<"1", "1", "A">> >>,
       << <<"G", "b">>, minor, <<"1", "1", "A">> >>,
       << <<"C", "#">>, minor, <<"1", "2", "A">> >>,
       << <<"D", "b">>, minor, <<"1", "2", "A">> >>,
       << <<"G", "#">>, minor, <<"1", "A">> >>,
       << <<"A", "b">>, minor, <<"1", "A">> >>,
       << <<"D", "#">>, minor, <<"2", "A">> >>,
       << <<"E", "b">>, minor, <<"2", "A">> >>,
       << <<"A", "#">>, minor, <<"3", "A">> >>,
       << <<"B", "b">>, minor, <<"3", "A">> >>,
       << <<"F">>, minor, <<"4", "A">> >>,
       << <<"C">>, minor, <<"5", "A">> >>,
       << <<"G">>, minor, <<"6", "A">> >>,
       << <<"D">>, minor, <<"7", "A">> >>,
       << <<"C">>, major, <<"8", "B">> >>,
       << <<"G">>, major, <<"9", "B">> >>,
       << <<"D">>, major, <<"1", "0", "B">> >>,
       << <<"A">>, major, <<"1", "1", "B">> >>,
       << <<"E">>, major, <<"1", "2", "B">> >>,
       << <<"B">>, major, <<"1", "B">> >>,
       << <<"F", "#">>, major, <<"2", "B">> >>,
       << <<"G", "b">>, major, <<"2", "B">> >>,
       << <<"C", "#">>, major, <<"3", "B">> >>,
       << <<"D", "b">>, major, <<"3", "B">> >>,
       << <<"G", "#">>, major, <<"4", "B">> >>,
       << <<"A", "b">>, major, <<"4", "B">> >>,
       << <<"D", "#">>, major, <<"5", "B">> >>,
       << <<"E", "b">>, major, <<"5", "B">> >>,
       << <<"A", "#">>, major, <<"6", "B">> >>,
       << <<"B", "b">>, major, <<"6", "B">> >>,
       << <<"F">>, major, <<"7", "B">> >> >>

\* The dict a literal of such rows builds.
DictOf(rows) ==
    [k \in {<<rows[i][1], rows[i][2]>> : i \in 1..Len(rows)} |->
        rows[CHOOSE i \in 1..Len(rows) : <<rows[i][1], rows[i][2]>> = k][3]]

\* Mutant: G major entered as 10B.
CAMELOT_MAP_GMajorShifted ==
    [DictOf(CamelotRows) EXCEPT ![<< <<"G">>, major >>] = <<"1", "0", "B">>]

CAMELOT_MAP == DictOf(CamelotRows)

\* Mutant: the scale looked up as given, without lower().
to_camelot_CaseSensitive(key, scale) ==
    IF <<key, scale>> \in DOMAIN CAMELOT_MAP THEN CAMELOT_MAP[<<key, scale>>] ELSE <<>>

\* return CAMELOT_MAP.get((key, scale.lower()), "")
to_camelot(key, scale) ==
    LET k == <<key, lower(scale)>> IN
    IF k \in DOMAIN CAMELOT_MAP THEN CAMELOT_MAP[k] ELSE <<>>

enharmonic_map ==
    [k \in {<<"D", "b">>, <<"E", "b">>, <<"G", "b">>, <<"A", "b">>, <<"B", "b">>} |->
        CASE k = <<"D", "b">> -> <<"C", "#">>
          [] k = <<"E", "b">> -> <<"D", "#">>
          [] k = <<"G", "b">> -> <<"F", "#">>
          [] k = <<"A", "b">> -> <<"G", "#">>
          [] OTHER -> <<"A", "#">>]

\* Mutant: the key stripped after the lookup instead of before it.
normalize_key_name_StripAfter(key) ==
    IF key \in DOMAIN enharmonic_map THEN enharmonic_map[key] ELSE strip(key)

\* key = key.strip(); return enharmonic_map.get(key, key)
normalize_key_name(key) ==
    LET k == strip(key) IN
    IF k \in DOMAIN enharmonic_map THEN enharmonic_map[k] ELSE k

\* Mutant: the root reported as the estimator spelled it.
detect_key_dict_RawRoot(key, scale, strength) ==
    [value |-> normalize_key_name(key) \o <<" ">> \o scale,
     camelot |-> to_camelot(normalize_key_name(key), scale),
     confidence |-> strength,
     scale |-> scale,
     root |-> key]

\* _detect_key after the estimator gave (key, scale, strength):
\*   key = normalize_key_name(key); camelot = to_camelot(key, scale)
\*   {"value": f"{key} {scale}", "camelot": camelot, "confidence": float(strength),
\*    "scale": scale, "root": key}
detect_key_dict(key, scale, strength) ==
    [value |-> normalize_key_name(key) \o <<" ">> \o scale,
     camelot |-> to_camelot(normalize_key_name(key), scale),
     confidence |-> strength,
     scale |-> scale,
     root |-> normalize_key_name(key)]

----------------------------------------------------------------------------
(* analyzer.py: _detect_bpm, and the classifiers of tagger.py as functions  *)
(* of the mean activation vector.  Activations and confidences are in      *)
(* tenths, like ConfMax: 1 is 0.1, 5 is 0.5.                               *)

ConfFloor == ConfMax \div 10
Half == ConfMax \div 2

\* seq[:n] of Python, n negative included.
Slice(seq, n) ==
    IF n >= 0
    THEN SubSeq(seq, 1, IF n < Len(seq) THEN n ELSE Len(seq))
    ELSE SubSeq(seq, 1, IF Len(seq) + n > 0 THEN Len(seq) + n ELSE 0)

\* The beat sequence RhythmExtractor2013 returns for n beats: increasing
\* timestamps.
EstimatorBeats(n) == [i \in 1..n |-> 5 * i]

\* Mutant: the beats passed on whole.
detect_bpm_dict_NoLimit(bpm, beats, beats_confidence) ==
    LET beats_list == IF Len(beats) > 0 THEN beats ELSE <<>> IN
    [value |-> bpm, confidence |-> beats_confidence,
     beats |-> IF beats_list # <<>> THEN [none |-> FALSE, list |-> beats_list]
                                    ELSE [none |-> TRUE, list |-> <<>>]]

\* _detect_bpm after the estimator:
\*   beats_list = [float(b) for b in beats[:100]] if len(beats) > 0 else []
\*   "beats": beats_list if beats_list else None
detect_bpm_dict(bpm, beats, beats_confidence) ==
    LET beats_list == IF Len(beats) > 0 THEN Slice(beats, BeatsLimit) ELSE <<>> IN
    [value |-> bpm, confidence |-> beats_confidence,
     beats |-> IF beats_list # <<>> THEN [none |-> FALSE, list |-> beats_list]
                                    ELSE [none |-> TRUE, list |-> <<>>]]

\* np.argsort(v)[::-1]: the indices of v by decreasing value, ties in any order.
Descending(v) ==
    {p \in [1..Len(v) -> 1..Len(v)] :
        /\ \A i, j \in 1..Len(v) : i # j => p[i] # p[j]
        /\ \A i, j \in 1..Len(v) : i < j => v[p[i]] >= v[p[j]]}

\* A label name: classes[i] of the label list, or the string f"tag_{i}".
ClassName(i) == [of |-> "classes", i |-> i]
TagName(i) == [of |-> "tag_", i |-> i]

\* _get_top_tags from the mean activations: the entries (name, confidence),
\*   "name": classes[i] if i < len(classes) else f"tag_{i}"
get_top_tags(mean_activations, nclasses, top_n, order) ==
    LET top_indices == Slice(order, top_n)
        Keep(i) == mean_activations[i] > ConfFloor IN
    IF nclasses = 0
    THEN <<>>
    ELSE [k \in 1..Len(SelectSeq(top_indices, Keep)) |->
            [index |-> SelectSeq(top_indices, Keep)[k],
             name |-> IF SelectSeq(top_indices, Keep)[k] <= nclasses
                      THEN ClassName(SelectSeq(top_indices, Keep)[k])
                      ELSE TagName(SelectSeq(top_indices, Keep)[k]),
             confidence |-> mean_activations[SelectSeq(top_indices, Keep)[k]]]]

\* _classify from the mean predictions of a loaded model: the class names, each
\* given by its index together with the activation that selected it.
classify(mean_predictions, nclasses, top_n, order) ==
    LET top_indices == Slice(order, top_n)
        Keep(i) == i <= nclasses /\ mean_predictions[i] > ConfFloor IN
    [k \in 1..Len(SelectSeq(top_indices, Keep)) |->
        [index |-> SelectSeq(top_indices, Keep)[k],
         name |-> ClassName(SelectSeq(top_indices, Keep)[k]),
         confidence |-> mean_predictions[SelectSeq(top_indices, Keep)[k]]]]

\* `"voice" in model_name` / `"danceability" in model_name`, over the names tag()
\* passes.
BinaryKey(model_name) ==
    CASE model_name = "voice_instrumental-discogs-effnet-1" -> "has_vocals"
      [] model_name = "danceability-discogs-effnet-1" -> "is_danceable"
      [] OTHER -> "is_positive"
\* The key tag() reads from the dict _classify_binary returned.
ReadKey(f) == IF f = "vocals" THEN "has_vocals" ELSE "is_danceable"

NoBinary == [none |-> TRUE, decision |-> FALSE, confidence |-> 0]

\* The metadata dict of a model, as far as its "classes" entry goes: none when
\* the dict has no such key ({} for a missing file), else n the length of it.
NoClasses == [none |-> TRUE, n |-> 0]
Classes(n) == [none |-> FALSE, n |-> n]

\* Mutant: the default of _get_top_tags and _classify, an empty list.
binary_classes_NoDefault(meta) == IF meta.none THEN 0 ELSE meta.n

\* len(classes) of _classify_binary:
\*   classes = metadata.get("classes", ["negative", "positive"])
binary_classes(meta) ==
    IF meta.none THEN Len(<<"negative", "positive">>) ELSE meta.n

\* Mutant: the decision taken with >=.
classify_binary_AtLeastHalf(f, mean_predictions, nclasses) ==
    LET positive_idx == IF nclasses > 1 THEN 2 ELSE 1 IN
    IF positive_idx > Len(mean_predictions)
    THEN NoBinary
    ELSE LET confidence == mean_predictions[positive_idx]
             is_positive == confidence >= Half IN
         [none |-> FALSE,
          decision |-> IF BinaryKey(MetaNameOf(f)) = ReadKey(f) THEN is_positive ELSE FALSE,
          confidence |-> confidence]

\* _classify_binary from the mean predictions of a loaded model, and what tag()
\* stores of it: <field> = res.get(<key>, False), <field>_confidence =
\* res.get("confidence", 0.0).  An index out of range is caught: None.
classify_binary(f, mean_predictions, nclasses) ==
    LET positive_idx == IF nclasses > 1 THEN 2 ELSE 1 IN
    IF positive_idx > Len(mean_predictions)
    THEN NoBinary
    ELSE LET confidence == mean_predictions[positive_idx]
             is_positive == confidence > Half IN
         [none |-> FALSE,
          decision |-> IF BinaryKey(MetaNameOf(f)) = ReadKey(f) THEN is_positive ELSE FALSE,
          confidence |-> confidence]

PyMin(a, b) == IF b < a THEN b ELSE a
PyMax(a, b) == IF b > a THEN b ELSE a

\* Mutant: the scores passed on as the model gave them.
get_arousal_valence_NoClamp(mean_predictions) ==
    [arousal |-> IF Len(mean_predictions) > 0 THEN mean_predictions[1] ELSE Half,
     valence |-> IF Len(mean_predictions) > 1 THEN mean_predictions[2] ELSE Half]

\* _get_arousal_valence from the mean predictions of a loaded model.
get_arousal_valence(mean_predictions) ==
    LET arousal == IF Len(mean_predictions) > 0 THEN mean_predictions[1] ELSE Half
        valence == IF Len(mean_predictions) > 1 THEN mean_predictions[2] ELSE Half IN
    [arousal |-> PyMax(0, PyMin(ConfMax, arousal)),
     valence |-> PyMax(0, PyMin(ConfMax, valence))]

----------------------------------------------------------------------------
(* The functions above called on their own, on inputs drawn from small sets *)

svcVars == <<pbFile, jsonFile, devs, tagger, models_loaded, handle, metadata,
             loadAttempts, pc, req, audio, est, result, emb, embCalls, tagres,
             tagrun, tagOutcome, loads, scheduler, response, metaReads, temp,
             cleanup_temp_files>>

SharpRoots == {<<"C">>, <<"C", "#">>, <<"D">>, <<"D", "#">>, <<"E">>, <<"F">>,
               <<"F", "#">>, <<"G">>, <<"G", "#">>, <<"A">>, <<"A", "#">>, <<"B">>}
FlatRoots == DOMAIN enharmonic_map
\* Key names: the 17 spellings, and names that are padded, lower-case, not a
\* note, or empty.
KeyInputs == SharpRoots \cup FlatRoots \cup
             {<<" ", "D", "b">>, <<"B", "b", " ">>, <<"\t", "A", "\n">>, <<"d", "b">>,
              <<"C", "b">>, <<"H">>, <<" ">>, <<>>}
ScaleInputs == {minor, major, <<"M", "i", "n", "o", "r">>, <<"M", "A", "J", "O", "R">>,
                <<"d", "o", "r", "i", "a", "n">>, <<>>}
\* tag_top_n as a request gives it: the form endpoint passes any integer on, the
\* JSON endpoint 1..50.
TopNValues == {-1, 0, 1, 2, 10}
\* Mean activations, in tenths.
ActValues == {0, ConfFloor, ConfFloor + 1, ConfMax - 1}
ActVectors == UNION {[1..n -> ActValues] : n \in 0..MaxClasses}
\* Mean predictions of a binary model (softmax over one or two classes).
BinValues == {0, Half - 1, Half, Half + 1, ConfMax}
BinVectors == UNION {[1..n -> BinValues] : n \in 1..2}
\* The metadata of a binary model: no "classes" entry, or one of 0..MaxClasses
\* names.
BinMetadata == {NoClasses} \cup {Classes(n) : n \in 0..MaxClasses}
\* Mean predictions of the emotion regressor: any real.
EmoValues == {-3, 0, Half, ConfMax, 47}
EmoVectors == UNION {[1..n -> EmoValues] : n \in 0..3}

CallToCamelot ==
    /\ fn = "none"
    /\ \E key \in KeyInputs, scale \in ScaleInputs :
         /\ arg' = [key |-> key, scale |-> scale]
         /\ ret' = to_camelot(key, scale)
    /\ fn' = "to_camelot"
    /\ UNCHANGED <<svcVars, singVars>>

CallNormalizeKeyName ==
    /\ fn = "none"
    /\ \E key \in KeyInputs :
         /\ arg' = [key |-> key]
         /\ ret' = normalize_key_name(key)
    /\ fn' = "normalize_key_name"
    /\ UNCHANGED <<svcVars, singVars>>

\* The key estimator names a root in any of the 17 spellings, and a scale.
CallDetectKey ==
    /\ fn = "none"
    /\ \E key \in SharpRoots \cup FlatRoots, scale \in {minor, major},
          strength \in ConfValues :
         /\ arg' = [key |-> key, scale |-> scale, strength |-> strength]
         /\ ret' = detect_key_dict(key, scale, strength)
    /\ fn' = "_detect_key"
    /\ UNCHANGED <<svcVars, singVars>>

CallDetectBpm ==
    /\ fn = "none"
    /\ \E n \in 0..MaxBeats :
         /\ arg' = [beats |-> EstimatorBeats(n)]
         /\ ret' = detect_bpm_dict(NominalBpm, EstimatorBeats(n), NominalConf)
    /\ fn' = "_detect_bpm"
    /\ UNCHANGED <<svcVars, singVars>>

CallGetTopTags ==
    /\ fn = "none"
    /\ \E v \in ActVectors, top_n \in TopNValues, nclasses \in 0..MaxClasses :
         \E order \in Descending(v) :
           /\ arg' = [activations |-> v, top_n |-> top_n, nclasses |-> nclasses]
           /\ ret' = get_top_tags(v, nclasses, top_n, order)
    /\ fn' = "_get_top_tags"
    /\ UNCHANGED <<svcVars, singVars>>

CallClassify ==
    /\ fn = "none"
    /\ \E v \in ActVectors, top_n \in TopNValues, nclasses \in 0..MaxClasses :
         \E order \in Descending(v) :
           /\ arg' = [activations |-> v, top_n |-> top_n, nclasses |-> nclasses]
           /\ ret' = classify(v, nclasses, top_n, order)
    /\ fn' = "_classify"
    /\ UNCHANGED <<svcVars, singVars>>

CallClassifyBinary ==
    /\ fn = "none"
    /\ \E f \in BinaryFields, v \in BinVectors, meta \in BinMetadata :
         /\ arg' = [field |-> f, predictions |-> v, meta |-> meta]
         /\ ret' = classify_binary(f, v, binary_classes(meta))
    /\ fn' = "_classify_binary"
    /\ UNCHANGED <<svcVars, singVars>>

CallGetArousalValence ==
    /\ fn = "none"
    /\ \E v \in EmoVectors :
         /\ arg' = [predictions |-> v]
         /\ ret' = get_arousal_valence(v)
    /\ fn' = "_get_arousal_valence"
    /\ UNCHANGED <<svcVars, singVars>>

\* The call is over.
CallOver ==
    /\ fn # "none"
    /\ fn' = "none"
    /\ arg' = <<>>
    /\ ret' = <<>>
    /\ UNCHANGED <<svcVars, singVars>>

NextFn ==
    \/ CallToCamelot
    \/ CallNormalizeKeyName
    \/ CallDetectKey
    \/ CallDetectBpm
    \/ CallGetTopTags
    \/ CallClassify
    \/ CallClassifyBinary
    \/ CallGetArousalValence
    \/ CallOver

SpecFn == Init /\ [][NextFn]_vars

----------------------------------------------------------------------------
(* Threads calling get_tagger / get_analyzer in a fresh process *)

InitSingleton ==
    /\ InitCommon
    /\ tagger = "None"
    /\ scheduler = "threads"
    /\ instances = [k \in Kinds |-> 0]
    /\ singleton = [k \in Kinds |-> NoInstance]

GetArgs(kind) == {DefaultArg[kind]} \cup
                 (IF kind = "tagger" THEN {[NoArg EXCEPT !.models_dir = "/srv/models"]}
                                     ELSE {[NoArg EXCEPT !.sample_rate = SampleRate \div 2]})

\* A thread calls get_tagger(a) or get_analyzer(a).
GetCall(r) ==
    /\ getcall[r].kind = "none"
    /\ \E kind \in Kinds : \E a \in GetArgs(kind) :
         getcall' = Set(getcall, r, [kind |-> kind, arg |-> a, saw |-> "none"])
    /\ UNCHANGED <<svcVars, libVars, instances, singleton, got>>

\* if _tagger is None:
GetCheck(r) ==
    /\ getcall[r].kind # "none"
    /\ getcall[r].saw = "none"
    /\ getcall' = Set(getcall, r,
          [getcall[r] EXCEPT !.saw = IF singleton[getcall[r].kind] = NoInstance
                                     THEN "None" ELSE "set"])
    /\ UNCHANGED <<svcVars, libVars, instances, singleton, got>>

\*     _tagger = AudioTagger(models_dir=models_dir)
GetCreate(r) ==
    /\ getcall[r].saw = "None"
    /\ LET kind == getcall[r].kind IN
       /\ instances' = [instances EXCEPT ![kind] = @ + 1]
       /\ singleton' = [singleton EXCEPT ![kind] = NewInstance(kind, getcall[r].arg)]
       /\ tagger' = IF kind = "tagger" THEN "created" ELSE tagger
    /\ getcall' = Set(getcall, r, [getcall[r] EXCEPT !.saw = "set"])
    /\ UNCHANGED <<pbFile, jsonFile, devs, models_loaded, handle, metadata,
                   loadAttempts, pc, req, audio, est, result, emb, embCalls, tagres,
                   tagrun, tagOutcome, loads, scheduler, response, libVars, got,
                   metaReads, fileVars>>

\* return _tagger
GetReturn(r) ==
    /\ getcall[r].saw = "set"
    /\ got' = [got EXCEPT ![getcall[r].kind] = @ \cup {singleton[getcall[r].kind]}]
    /\ getcall' = Set(getcall, r, NoGetCall)
    /\ UNCHANGED <<svcVars, libVars, instances, singleton>>

NextSingleton ==
    \E r \in Requests :
        \/ GetCall(r)
        \/ GetCheck(r)
        \/ GetCreate(r)
        \/ GetReturn(r)

SpecSingleton == InitSingleton /\ [][NextSingleton]_vars

----------------------------------------------------------------------------
(* Claims *)

\* The request has left analyze(): by its return or by an exception.
AnalyzeOver(r) == pc[r] \notin {"idle", "fetch", "analyze_load", "detect_key", "detect_bpm"}
Decoded(r) == audio[r] >= 0
ThreeSeconds == 3 * SampleRate

\* C1: for every decoded input of fewer than 3.0 s of samples, analyze() raises
\* the ValueError, which the route turns into 422 invalid_audio: no estimator
\* runs and neither analyze() nor the response holds a key, bpm, tags or
\* duration.  An input of exactly 3.0 s passes the check: analyze() goes on with
\* a result that holds its duration.
C1_ShortAudioRefused ==
    \A r \in Requests :
        Decoded(r) =>
            IF audio[r] < ThreeSeconds
            THEN /\ pc[r] \in {"cleanup", "done"}
                 /\ response[r] = [NoResponse EXCEPT !.status = 422, !.error = "invalid_audio"]
                 /\ result[r] = NoResult
                 /\ est[r] = NoEst
                 /\ tagOutcome[r] = "none"
            ELSE result[r].duration = audio[r]

C1_Witness ==
    \E r \in Requests :
        /\ pc[r] = "done"
        /\ audio[r] = ThreeSeconds - 1
        /\ response[r].status = 422
        /\ response[r].error = "invalid_audio"

\* C3: if the audio exists and decodes to at least 3.0 s, the request ends with
\* an AnalysisResult (status 200), whatever the estimators and the models
\* returned or raised.
C3_LongAudioAlwaysAnswered ==
    \A r \in Requests :
        (pc[r] = "done" /\ Decoded(r) /\ audio[r] >= ThreeSeconds) => response[r].status = 200

\* C8: in analyze(), a key detection that raises leaves key = None and the tempo
\* detection still runs, its result being returned as it was produced; a tempo
\* detection that raises leaves bpm = None and the key result and the duration
\* are returned as they were produced.
C8_KeyTempoIsolated ==
    \A r \in Requests :
        (AnalyzeOver(r) /\ Decoded(r) /\ audio[r] >= ThreeSeconds) =>
            /\ est[r].key = "raised" =>
                 /\ result[r].key.st = "None"
                 /\ req[r].detect_bpm => est[r].bpm # "none"
                 /\ est[r].bpm = "returned" =>
                      result[r].bpm = [st |-> "ok", value |-> est[r].value,
                                       confidence |-> est[r].confidence]
            /\ est[r].bpm = "raised" =>
                 /\ result[r].bpm.st = "None"
                 /\ result[r].duration = audio[r]
                 /\ est[r].key = "returned" =>
                      result[r].key = [st |-> "ok", confidence |-> est[r].strength]

C8_Witness ==
    \E r \in Requests :
        /\ pc[r] = "done"
        /\ est[r].key = "raised"
        /\ est[r].bpm = "returned"
        /\ response[r].status = 200
        /\ response[r].key.st = "absent"
        /\ response[r].bpm.st = "ok"

\* C2: when several calls of _ensure_models_loaded race on the first load, the
\* load of each model and of each embedder is attempted once in total.
C2_OneLoadAttemptPerModel ==
    \A h \in Handles :
        /\ loadAttempts[h] <= 1
        /\ models_loaded => loadAttempts[h] = 1

\* The classifier of f raised, in its model call or in its metadata read.
Failed(r, f) == tagrun[r][f] \in {"raised", "meta_raised"}

\* C4: an exception raised while one classifier of tag() runs, the read of its
\* label metadata included, is caught at that classifier: tag() does not raise,
\* the field of that classifier is left out, and every other classifier
\* statement is still executed.
C4_ClassifierFailureIsolated ==
    \A r \in Requests : \A f \in TagFields :
        Failed(r, f) =>
            /\ tagOutcome[r] # "raised"
            /\ tagres[r][f] = "absent"
            /\ tagOutcome[r] = "returned" => \A g \in TagFields : tagrun[r][g] # "none"

\* C5: if the .pb of a classification model is missing from the model
\* directory, then once tag() has returned the field of that model is absent
\* from its result (not an empty list), and nothing raised in
\* _ensure_models_loaded or in that classifier.
C5_MissingArtifactFieldAbsent ==
    \A r \in Requests :
        /\ tagOutcome[r] # "ensure_raised"
        /\ \A f \in TagFields :
             (pbFile[MetaNameOf(f)] = "missing" /\ tagOutcome[r] = "returned") =>
                 /\ tagres[r][f] = "absent"
                 /\ ~Failed(r, f)

BadArtifact(name) == pbFile[name] \in {"missing", "invalid"}
EnsureReturned(r) ==
    pc[r] \in {"tag_audio", "embed_effnet", "embed_musicnn", "tag_return"}
              \cup {TagOrder[k] : k \in 1..Len(TagOrder)}

\* C6: _ensure_models_loaded never raises, whatever artifacts and sidecars are
\* missing, unreadable or invalid: a call that has returned has set
\* _models_loaded, and every model or embedder whose artifact is missing or
\* invalid is left at None.
C6_EnsureNeverRaises ==
    /\ \A r \in Requests : tagOutcome[r] # "ensure_raised"
    /\ \A r \in Requests : EnsureReturned(r) => models_loaded
    /\ \A i \in 1..Len(Catalog) :
         BadArtifact(Catalog[i].name) => handle[Catalog[i].attr] = "None"
    /\ BadArtifact(MsdName) => handle["musicnn_embedder"] = "None"
    /\ (pbFile[DiscogsPb] = "invalid" \/ (pbFile[DiscogsPb] = "missing" /\ BadArtifact(GenreName)))
           => handle["discogs_embedder"] = "None"

C6_Witness ==
    \E r \in Requests :
        /\ pc[r] = "tag_audio"
        /\ models_loaded
        /\ \E m \in ModelNames : pbFile[m] = "invalid"
        /\ \E m \in ModelNames : jsonFile[m] = "malformed"

\* C7: once a call of _ensure_models_loaded has set _models_loaded, a later call
\* returns at once: it attempts no load and leaves the handles, the metadata
\* cache and the flag as they are; no load, failed or not, is attempted twice.
C7_LoadingIdempotent ==
    /\ [](\A h \in Handles : loadAttempts[h] <= 1)
    /\ [][\A r \in Requests :
            (pc[r] = "ensure" /\ models_loaded /\ pc'[r] # "ensure") =>
                /\ pc'[r] = AfterEnsure(r)
                /\ loads'[r] = 0
                /\ UNCHANGED <<models_loaded, handle, metadata, loadAttempts>>]_vars

C7_Witness ==
    \E r \in Requests :
        /\ pc[r] = "tag_audio"
        /\ loads[r] = 0
        /\ models_loaded
        /\ \E h \in Handles : handle[h] = "None" /\ loadAttempts[h] = 1

\* The classifier statements of tag() have been reached.
ClassifiersReached(r) == tagrun[r]["top_tags"] # "none"
Ran(r, f) == tagrun[r][f] \notin {"none", "skipped"}

\* C9: when an embedding provider is unavailable (its embedder is None or its
\* extraction raised), every classifier that depends on it is skipped and its
\* field is absent, tag() does not raise, and the requested classifiers of the
\* other provider run.
C9_ProviderUnavailable ==
    \A r \in Requests :
        ClassifiersReached(r) =>
            /\ emb[r].effnet = "None" =>
                 /\ \A f \in EffnetFields : tagres[r][f] = "absent" /\ ~Ran(r, f)
                 /\ tagOutcome[r] # "raised"
                 /\ (tagOutcome[r] = "returned" /\ emb[r].musicnn # "None") =>
                        \A f \in MusicnnFields : Requested(r, f) => Ran(r, f)
            /\ emb[r].musicnn = "None" =>
                 /\ \A f \in MusicnnFields : tagres[r][f] = "absent" /\ ~Ran(r, f)
                 /\ tagOutcome[r] # "raised"
                 /\ (tagOutcome[r] = "returned" /\ emb[r].effnet # "None") =>
                        \A f \in EffnetFields : Requested(r, f) => Ran(r, f)

\* C10: within one call of tag() each embedding provider is invoked at most
\* once.
C10_EmbedOncePerCall ==
    \A r \in Requests : embCalls[r].effnet <= 1 /\ embCalls[r].musicnn <= 1

C10_Witness ==
    \E r \in Requests :
        /\ pc[r] = "tag_return"
        /\ embCalls[r] = [effnet |-> 1, musicnn |-> 1]
        /\ \A f \in TagFields : tagrun[r][f] = "returned"

\* The request was answered with an AnalysisResponse.
Answered(r) == pc[r] \in {"cleanup", "done"} /\ response[r].status = 200

\* C11: a field is in the analysis result only if it was requested and its
\* computation succeeded: key only if detect_key and the key estimator returned,
\* bpm likewise, tags only if detect_tags and tag() returned, and each field of
\* tags only if its category was requested and its classifier produced a result.
C11_FieldsOnlyIfRequestedAndProduced ==
    \A r \in Requests :
        Answered(r) =>
            /\ response[r].key.st = "ok" => req[r].detect_key /\ est[r].key = "returned"
            /\ response[r].bpm.st = "ok" => req[r].detect_bpm /\ est[r].bpm = "returned"
            /\ response[r].hasTags => req[r].detect_tags /\ tagOutcome[r] = "returned"
            /\ \A f \in TagFields :
                 response[r].tags[f] # "absent" =>
                     /\ response[r].hasTags
                     /\ Requested(r, f)
                     /\ tagrun[r][f] = "returned"

\* The notation codes 1A..12A, 1B..12B, as strings.
Digit == <<"1", "2", "3", "4", "5", "6", "7", "8", "9">>
NumStr(n) == IF n < 10 THEN <<Digit[n]>>
             ELSE <<Digit[n \div 10], IF n % 10 = 0 THEN "0" ELSE Digit[n % 10]>>
Codes == {NumStr(n) \o <<x>> : n \in 1..12, x \in {"A", "B"}}
CodeNumber(code) == SubSeq(code, 1, Len(code) - 1)
CodeSuffix(code) == code[Len(code)]
\* The table of 12 sharp-spelled roots x {major, minor}.
WheelTable == SharpRoots \X {major, minor}

\* C12 as stated: to_camelot returns a code for every pair of the 24-entry
\* table of sharp-spelled roots, and the empty string for every other pair.
C12_TotalOverSharpTable ==
    fn = "to_camelot" =>
        IF <<arg.key, arg.scale>> \in WheelTable THEN ret \in Codes ELSE ret = <<>>

\* C12, amended: to_camelot never raises on strings; it returns a code 1A-12A /
\* 1B-12B exactly when the root is one of the 17 spellings of the table (12
\* sharp or natural, 5 flat) and the scale, lower-cased, is major or minor, a
\* flat root getting the code of its sharp equivalent; every other pair gives
\* the empty string.
C12_TotalOverSpellings ==
    fn = "to_camelot" =>
        IF arg.key \in SharpRoots \cup FlatRoots /\ lower(arg.scale) \in {major, minor}
        THEN /\ ret \in Codes
             /\ CodeSuffix(ret) = (IF lower(arg.scale) = minor THEN "A" ELSE "B")
             /\ arg.key \in FlatRoots =>
                    ret = CAMELOT_MAP[<<enharmonic_map[arg.key], lower(arg.scale)>>]
        ELSE ret = <<>>

C12_Witness ==
    /\ fn = "to_camelot"
    /\ arg = [key |-> <<"D", "b">>, scale |-> <<"M", "i", "n", "o", "r">>]
    /\ ret = <<"1", "2", "A">>

\* The 12 roots by semitone, from C.
Chromatic == << <<"C">>, <<"C", "#">>, <<"D">>, <<"D", "#">>, <<"E">>, <<"F">>,
                <<"F", "#">>, <<"G">>, <<"G", "#">>, <<"A">>, <<"A", "#">>, <<"B">> >>
SemitoneOf(root) == CHOOSE i \in 1..12 : Chromatic[i] = root
\* The root 3 semitones below.
RelativeMinorRoot(root) == Chromatic[((SemitoneOf(root) - 1 + 9) % 12) + 1]

\* C13: in the wheel table each major key has the suffix B and the code number
\* of its relative minor (root 3 semitones below), which has the suffix A;
\* C major is 8B and A minor is 8A.
C13_RelativeMinorSameNumber ==
    (fn = "to_camelot" /\ arg.key \in SharpRoots /\ arg.scale = major) =>
        LET rel == CAMELOT_MAP[<<RelativeMinorRoot(arg.key), minor>>] IN
        /\ ret = CAMELOT_MAP[<<arg.key, major>>]
        /\ CodeSuffix(ret) = "B"
        /\ CodeSuffix(rel) = "A"
        /\ CodeNumber(ret) = CodeNumber(rel)
        /\ arg.key = <<"C">> => ret = <<"8", "B">> /\ rel = <<"8", "A">>

C13_Witness ==
    /\ fn = "to_camelot"
    /\ arg = [key |-> <<"G">>, scale |-> major]
    /\ ret = <<"9", "B">>

\* C14: normalize_key_name is idempotent, returns a sharp or natural key
\* unchanged, and maps Db, Eb, Gb, Ab, Bb to C#, D#, F#, G#, A#.
C14_NormalizeIdempotent ==
    fn = "normalize_key_name" =>
        /\ normalize_key_name(ret) = ret
        /\ arg.key \in SharpRoots => ret = arg.key
        /\ arg.key = <<"D", "b">> => ret = <<"C", "#">>
        /\ arg.key = <<"E", "b">> => ret = <<"D", "#">>
        /\ arg.key = <<"G", "b">> => ret = <<"F", "#">>
        /\ arg.key = <<"A", "b">> => ret = <<"G", "#">>
        /\ arg.key = <<"B", "b">> => ret = <<"A", "#">>

C14_Witness ==
    /\ fn = "normalize_key_name"
    /\ arg.key = <<" ", "D", "b">>
    /\ ret = <<"C", "#">>

\* C15: the beats field of a tempo result is null exactly when the estimator
\* gave no beat; otherwise it is the first min(n, 100) beats of the estimator in
\* their order: never an empty list, never longer than 100.
C15_BeatsNullOrPrefix ==
    fn = "_detect_bpm" =>
        LET n == Len(arg.beats) IN
        /\ ret.beats.none <=> n = 0
        /\ ~ret.beats.none =>
             /\ Len(ret.beats.list) = (IF n < BeatsLimit THEN n ELSE BeatsLimit)
             /\ Len(ret.beats.list) > 0
             /\ \A i \in 1..Len(ret.beats.list) : ret.beats.list[i] = arg.beats[i]

C15_Witness ==
    /\ fn = "_detect_bpm"
    /\ Len(arg.beats) = BeatsLimit + 1
    /\ Len(ret.beats.list) = BeatsLimit

\* C16: a ranked-label output has its entries in non-increasing order of
\* activation, at most top_n of them, each with an activation above 0.1, for
\* every top_n a request can carry.
C16_RankedLabelsBounded ==
    fn \in {"_get_top_tags", "_classify"} =>
        /\ \A i, j \in 1..Len(ret) : i < j => ret[i].confidence >= ret[j].confidence
        /\ Len(ret) <= arg.top_n
        /\ \A i \in 1..Len(ret) : ret[i].confidence > ConfFloor

\* C17: a binary classifier output has its decision true exactly when its
\* confidence is above 0.5; at 0.5 the decision is false.
C17_DecisionIffAboveHalf ==
    (fn = "_classify_binary" /\ ~ret.none) =>
        /\ ret.decision <=> ret.confidence > Half
        /\ ret.confidence = Half => ~ret.decision

C17_Witness ==
    /\ fn = "_classify_binary"
    /\ arg.field = "danceability"
    /\ ~ret.none
    /\ ret.confidence = Half
    /\ ~ret.decision

Clamped(x) == IF x < 0 THEN 0 ELSE IF x > ConfMax THEN ConfMax ELSE x

\* C18: _get_arousal_valence returns the first output dimension clamped to
\* [0,1] as arousal and the second as valence, 0.5 for a dimension the output
\* lacks; both scores are in [0,1].
C18_ScoresClamped ==
    fn = "_get_arousal_valence" =>
        LET v == arg.predictions IN
        /\ ret.arousal = (IF Len(v) > 0 THEN Clamped(v[1]) ELSE Half)
        /\ ret.valence = (IF Len(v) > 1 THEN Clamped(v[2]) ELSE Half)
        /\ 0 <= ret.arousal /\ ret.arousal <= ConfMax
        /\ 0 <= ret.valence /\ ret.valence <= ConfMax

C18_Witness ==
    /\ fn = "_get_arousal_valence"
    /\ Len(arg.predictions) = 1
    /\ arg.predictions[1] > ConfMax
    /\ ret = [arousal |-> ConfMax, valence |-> Half]

\* C19: every confidence in a produced AnalysisResponse (key, bpm, top_tags
\* entries, vocal and danceability confidence) is in [0,1], whatever the
\* estimators and models gave.
C19_ConfidencesInRange ==
    \A r \in Requests :
        Answered(r) =>
            /\ response[r].key.st = "ok" =>
                 0 <= response[r].key.confidence /\ response[r].key.confidence <= ConfMax
            /\ response[r].bpm.st = "ok" =>
                 0 <= response[r].bpm.confidence /\ response[r].bpm.confidence <= ConfMax
            /\ \A f \in {"top_tags", "vocals", "danceability"} :
                 response[r].tags[f] # "badvalue"

C19_Witness ==
    \E r \in Requests :
        /\ pc[r] = "done"
        /\ response[r].status = 200
        /\ response[r].key.st = "ok"
        /\ response[r].key.confidence = ConfMax
        /\ \E f \in TagFields : tagres[r][f] = "badvalue"
        /\ ~response[r].hasTags

\* C20: over every interleaving of get_tagger / get_analyzer calls one
\* AudioTagger and one AudioAnalyzer are created at most, and every call of
\* either returns the same instance.
C20_Singletons ==
    \A k \in Kinds :
        /\ instances[k] <= 1
        /\ Cardinality(got[k]) <= 1

\* A thread is inside a pass of _ensure_models_loaded over the catalog.
InPass(r) == pc[r] \in {"load_discogs", "load_musicnn", "set_loaded"}
                       \cup {LoadPcs[k] : k \in 1..Len(LoadPcs)}

\* C21: with threads racing on the first access, a thread that has passed
\* _ensure_models_loaded reads the registry only after a complete pass over the
\* catalog has finished (the flag is set and the load of every embedder and
\* model was attempted), and every handle it reads is None or a constructed
\* model.
C21_NoPartialRegistry ==
    \A r \in Requests :
        (pc[r] = "done" /\ req[r].entry = "ensure") =>
            /\ models_loaded
            /\ \A h \in Handles :
                 /\ loadAttempts[h] >= 1
                 /\ handle[h] \in {"None", "loaded"}

C21_Witness ==
    \E r, q \in Requests :
        /\ r # q
        /\ pc[r] = "done" /\ req[r].entry = "ensure"
        /\ loads[r] >= 1
        /\ InPass(q)
        /\ loads[q] >= 1

\* C22: a model or a label metadata file whose load failed (missing, invalid
\* or malformed) stays failed: the load of that model is attempted once, and no
\* request after the one that found the file missing or malformed reads that
\* file again.
C22_FailedLoadNotRetried ==
    /\ \A i \in 1..Len(Catalog) :
         BadArtifact(Catalog[i].name) => loadAttempts[Catalog[i].attr] <= 1
    /\ \A m \in ModelNames :
         jsonFile[m] \in {"missing", "malformed"} => metaReads[m] # "again"

\* C23: the metadata lookup of a classifier never raises to it: for a missing,
\* unreadable or malformed file the classifier gets an empty label list and
\* goes on, so no classifier of tag() ends in an exception of _load_metadata.
C23_MetadataLookupNeverRaises ==
    \A r \in Requests : \A f \in TagFields :
        /\ tagrun[r][f] # "meta_raised"
        /\ (UsesMetadata(f) /\ Ran(r, f) /\ jsonFile[MetaNameOf(f)] = "malformed")
               => tagrun[r][f] \in {"nomodel", "returned", "raised"}

\* C24: a registry entry is immutable once loaded: in no step of any thread is
\* a handle that holds a constructed model constructed and assigned again or
\* set back, and no label list is taken out of the metadata cache.
C24_LoadedEntryImmutable ==
    [][/\ \A h \in Handles :
            handle[h] = "loaded" =>
                /\ handle'[h] = "loaded"
                /\ loadAttempts'[h] = loadAttempts[h]
       /\ metadata \subseteq metadata']_vars

\* C26: top_tags is in the tags of a response only when the general-tag model
\* (_msd_model) is loaded, and its values are the class activations of that
\* model (computed from the MusiCNN embedding), not of anything else.
C26_TopTagsFromMsdModel ==
    \A r \in Requests :
        (Answered(r) /\ response[r].tags["top_tags"] # "absent") =>
            /\ emb[r].musicnn = "value"
            /\ handle["msd_model"] = "loaded"
            /\ ValuesOf("top_tags") = "msd_model"

\* C29: within tag(), a classifier that ran did so after the embedding
\* computation of its provider had completed with a value: both extraction
\* steps are behind it, its provider's embedder was called, and the embedding
\* is not None.
C29_ClassifierAfterEmbedding ==
    \A r \in Requests : \A f \in TagFields :
        Ran(r, f) =>
            /\ pc[r] \notin {"tag_audio", "embed_effnet", "embed_musicnn"}
            /\ EmbeddingOf(r, f) = "value"
            /\ IF f \in MusicnnFields THEN embCalls[r].musicnn = 1
                                       ELSE embCalls[r].effnet = 1

C29_Witness ==
    \E r \in Requests :
        /\ pc[r] = "tag_return"
        /\ handle["discogs_embedder"] = "loaded"
        /\ emb[r] = [effnet |-> "None", musicnn |-> "value"]
        /\ "genres" \in req[r].flags
        /\ tagrun[r]["genres"] = "skipped"
        /\ Ran(r, "top_tags")

\* Tagging was asked for and an exception ended it: in get_tagger / tag() or
\* in the conversion of its result to TagResult.
TaggingRaised(r) == tagOutcome[r] \in {"ensure_raised", "raised", "convert_failed"}

\* C30: when tagging raises at any point, the request still succeeds: the
\* response has status 200, carries the key, the bpm and the duration the
\* analyzer produced, and has no tags.
C30_TaggingFailureContained ==
    \A r \in Requests :
        (pc[r] = "done" /\ TaggingRaised(r)) =>
            /\ response[r].status = 200
            /\ ~response[r].hasTags
            /\ response[r].key = (IF result[r].key.st = "ok" THEN result[r].key
                                  ELSE AbsentKey)
            /\ response[r].bpm = (IF result[r].bpm.st = "ok" THEN result[r].bpm
                                  ELSE AbsentBpm)
            /\ response[r].duration = result[r].duration

\* The label names of a ranking, in order.
NamesOf(ranking) == [k \in 1..Len(ranking) |-> ranking[k].name]

\* C25: _get_top_tags and _classify differ only in the confidences: for the
\* same mean activations, the same label list and the same top_n, the names
\* _classify returned are, in order, the names of the _get_top_tags output
\* (for the order argsort gave).
C25_SameNamesAsClassify ==
    fn = "_classify" =>
        \E order \in Descending(arg.activations) :
            /\ ret = classify(arg.activations, arg.nclasses, arg.top_n, order)
            /\ NamesOf(ret) = NamesOf(get_top_tags(arg.activations, arg.nclasses,
                                                   arg.top_n, order))

\* C27: no reported value is invented: every name of a top_tags entry is a
\* name of the model's label list and its score is the activation at the index
\* of that name, and every score of a binary classifier is one of the mean
\* predictions of its model.
C27_NoInventedValue ==
    /\ fn = "_get_top_tags" =>
          \A k \in 1..Len(ret) :
              /\ ret[k].name.of = "classes"
              /\ ret[k].name.i \in 1..arg.nclasses
              /\ ret[k].confidence = arg.activations[ret[k].name.i]
    /\ (fn = "_classify_binary" /\ ~ret.none) =>
          \E i \in 1..Len(arg.predictions) : ret.confidence = arg.predictions[i]

\* C28: the confidence of a binary classifier is the mean prediction at the
\* positive-class index: the second entry when the label list has two classes
\* or more, the first otherwise; with no label list in the metadata two classes
\* are assumed and the second entry is taken.
C28_PositiveClassIndex ==
    (fn = "_classify_binary" /\ ~ret.none) =>
        LET positive == IF arg.meta.none \/ arg.meta.n >= 2 THEN 2 ELSE 1 IN
        /\ positive <= Len(arg.predictions)
        /\ ret.confidence = arg.predictions[positive]

C28_Witness ==
    /\ fn = "_classify_binary"
    /\ arg.meta = NoClasses
    /\ Len(arg.predictions) = 2
    /\ arg.predictions[1] # arg.predictions[2]
    /\ ~ret.none
    /\ ret.confidence = arg.predictions[2]

\* C31: every key result of _detect_key has as root the sharp spelling of the
\* estimator's root (never Db, Eb, Gb, Ab, Bb), as value the root, a blank and
\* the scale, as camelot the code of (root, scale), and as confidence the
\* estimator's strength unchanged; (A, minor) gives "A minor" and 8A.
C31_KeyResult ==
    fn = "_detect_key" =>
        /\ ret.root \in SharpRoots
        /\ ret.root = (IF arg.key \in FlatRoots THEN enharmonic_map[arg.key]
                                                ELSE arg.key)
        /\ ret.value = ret.root \o <<" ">> \o arg.scale
        /\ ret.camelot = to_camelot(ret.root, arg.scale)
        /\ ret.camelot \in Codes
        /\ ret.confidence = arg.strength
        /\ (arg.key = <<"A">> /\ arg.scale = minor) =>
               /\ ret.value = <<"A", " ", "m", "i", "n", "o", "r">>
               /\ ret.camelot = <<"8", "A">>

C31_Witness ==
    /\ fn = "_detect_key"
    /\ arg.key = <<"E", "b">>
    /\ arg.scale = minor
    /\ ret.root = <<"D", "#">>
    /\ ret.value = <<"D", "#", " ", "m", "i", "n", "o", "r">>
    /\ ret.camelot = <<"2", "A">>
    /\ ret.confidence = ConfMax + 1

\* C34: a failure to obtain the audio is answered as a 422 client error with
\* its own code: download_failed when the download failed, file_error when no
\* file could be obtained; never 503.
C34_FetchFailureIs422 ==
    \A r \in Requests :
        (pc[r] \in {"cleanup", "done"}
            /\ temp[r].raised \in {"download_failed", "file_error"}) =>
            /\ response[r].status = 422
            /\ response[r].error = temp[r].raised

\* C35: a request that made a temporary file ends with one outcome, and with
\* cleanup_temp_files on the removal of the file was attempted on whatever path
\* the request took: the file is gone, or its unlink was tried and failed.
C35_TempFileRemovalAttempted ==
    \A r \in Requests :
        (pc[r] = "done" /\ temp[r].file # "none") =>
            /\ response[r].status \in {200, 422, 503}
            /\ cleanup_temp_files =>
                  \/ temp[r].file = "removed" /\ temp[r].unlink = "ok"
                  \/ temp[r].file = "exists" /\ temp[r].unlink = "failed"

\* The decoded audio of the request is shorter than 3.0 s.
ShortAudio(r) == audio[r] >= 0 /\ audio[r] < ThreeSeconds

\* C33: the duration is checked before any other work: for audio shorter than
\* 3.0 s no key and no tempo estimation, no model loading, no embedding and no
\* classification is done for the request, whatever its detect flags, and it
\* is refused with 422 invalid_audio.
C33_DurationCheckedFirst ==
    \A r \in Requests :
        ShortAudio(r) =>
            /\ pc[r] \in {"cleanup", "done"}
            /\ response[r].status = 422 /\ response[r].error = "invalid_audio"
            /\ est[r] = NoEst
            /\ result[r] = NoResult
            /\ loads[r] = 0
            /\ getcall[r] = NoGetCall
            /\ emb[r] = NoEmb /\ embCalls[r] = NoEmbCalls
            /\ tagrun[r] = NoTagrun /\ tagres[r] = NoTagres
            /\ tagOutcome[r] = "none"

C33_Witness ==
    \E r \in Requests :
        /\ pc[r] = "done"
        /\ audio[r] = ThreeSeconds - 1
        /\ req[r].detect_tags
        /\ ~req[r].detect_key /\ ~req[r].detect_bpm
        /\ response[r].status = 422

\* The data a request holds.
DataOf(q) == <<req[q], audio[q], est[q], result[q], emb[q], embCalls[q], tagres[q],
               tagrun[q], tagOutcome[q], loads[q], response[q], temp[q]>>
NoData == <<NoReq, -1, NoEst, NoResult, NoEmb, NoEmbCalls, NoTagres, NoTagrun, "none",
            0, NoResponse, NoTemp>>
\* The request is inside AudioAnalyzer.analyze or AudioTagger.tag.
InAnalyzeOrTag(r) ==
    \/ pc[r] \in {"analyze_load", "detect_key", "detect_bpm", "ensure"}
    \/ InPass(r)
    \/ EnsureReturned(r)

====
